---------------------------- MODULE Spec2Model ----------------------------
(***************************************************************************)
(* A model of VTextEdit (src/src/vtextedit.cpp): the editing surface that  *)
(* owns the image cache, the block-caret width and the line-number gutter. *)
(*                                                                         *)
(* The collaborators whose code is not part of vtextedit.cpp               *)
(* (VImageResourceManager2, VTextDocumentLayout, VLineNumberArea and the   *)
(* QTextEdit base class) are modelled from their description; every call   *)
(* VTextEdit makes on them is kept, in the order the code makes it.        *)
(***************************************************************************)
EXTENDS Integers, Sequences, FiniteSets, TLC

(***************************************************************************)
(* Bounds of the model.                                                    *)
(***************************************************************************)
\* The widest caret width the layout engine notifies.
MaxWidth == 10

\* The longest document painted in the Absolute and Relative modes.
MaxLines == 3

\* The longest document painted in the CodeBlock mode.
MaxBlocks == 4

\* The lowest pixel row of a paint event's rectangle.
MaxY == 2

\* The longest document whose gutter width is followed (two-digit numbers).
MaxGutterBlocks == 11

(***************************************************************************)
(* Program constants.                                                      *)
(***************************************************************************)
VIRTUAL_CURSOR_BLOCK_WIDTH == 8

\* enum class BlockState
Normal == 0

CodeBlockStart == 1

CodeBlock == 2

CodeBlockEnd == 3

Comment == 4

BlockStates == {Normal, CodeBlockStart, CodeBlock, CodeBlockEnd, Comment}

\* enum class LineNumberType (vtextedit.h), as the code of vtextedit.cpp uses it.
LineNumberTypes == {"None", "Absolute", "Relative", "CodeBlock"}

\* enum class CursorBlock (vtextedit.h): None, or a block caret.
CursorBlockModes == {"None", "BlockCaret"}

\* Image names and pixmaps handed to addImage. A pixmap has content (id) and a
\* size; two of these have the same size and different content.
Names == {"x", "y"}

Pixmaps ==
  { [id |-> 1, width |-> 1, height |-> 1],
    [id |-> 2, width |-> 1, height |-> 1],
    [id |-> 3, width |-> 2, height |-> 1] }

\* Widths a cursorBlockWidthUpdated notification can carry.
Widths == 0..MaxWidth

VARIABLES
  m_lineNumberType,            \* LineNumberType
  m_blockImageEnabled,         \* bool
  m_cursorBlockMode,           \* CursorBlock
  m_highlightCursorLineBlock,  \* bool
  m_imageMgr,                  \* the cache: image name -> pixmap, for the names held
  layout,                      \* the fields of VTextDocumentLayout this file sets
  cursorWidth,                 \* QTextEdit::cursorWidth()
  viewportMarginLeft,          \* viewportMargins().left()
  lineNumberAreaVisible,       \* m_lineNumberArea->isVisible()
  calls,                       \* the collaborator calls of the last handler, in order
  last,                        \* the last handler entered, with its arguments
  \* What paintLineNumberArea reads from the document, the caret and the event.
  doc,                         \* the blocks: userState, visible, height (in half pixels)
  sbValue,                     \* verticalScrollBar()->value()
  curBlockNumber,              \* textCursor().block().blockNumber()
  eventTop,                    \* p_event->rect().top()
  eventBtm,                    \* p_event->rect().bottom()
  \* The locals of paintLineNumberArea.
  pc,                          \* "idle", "number", "code", "scan", "done", "aborted"
  loc,                         \* block, blockNumber, top, bottom, number, startBlock, bold
  drawn,                       \* the drawText calls made, in order
  visited                      \* the blocks the forward loop has processed, in order

ctlVars ==
  << m_lineNumberType, m_blockImageEnabled, m_cursorBlockMode,
     m_highlightCursorLineBlock, m_imageMgr, layout, cursorWidth,
     viewportMarginLeft, lineNumberAreaVisible, calls, last >>

paintIn == << doc, sbValue, curBlockNumber, eventTop, eventBtm >>

paintVars == << pc, loc, drawn, visited >>

vars == << ctlVars, paintIn, paintVars >>

(***************************************************************************)
(* The controller's state as one value, so that a handler is the           *)
(* composition of its statements in the order of the code.                 *)
(***************************************************************************)
Ctl ==
  [ m_lineNumberType           |-> m_lineNumberType,
    m_blockImageEnabled        |-> m_blockImageEnabled,
    m_cursorBlockMode          |-> m_cursorBlockMode,
    m_highlightCursorLineBlock |-> m_highlightCursorLineBlock,
    m_imageMgr                 |-> m_imageMgr,
    layout                     |-> layout,
    cursorWidth                |-> cursorWidth,
    viewportMarginLeft         |-> viewportMarginLeft,
    lineNumberAreaVisible      |-> lineNumberAreaVisible,
    blockCount                 |-> Len(doc),   \* document()->blockCount()
    curBlockNumber             |-> curBlockNumber,   \* textCursor().block().blockNumber()
    calls                      |-> << >> ]

Apply(s) ==
  /\ m_lineNumberType' = s.m_lineNumberType
  /\ m_blockImageEnabled' = s.m_blockImageEnabled
  /\ m_cursorBlockMode' = s.m_cursorBlockMode
  /\ m_highlightCursorLineBlock' = s.m_highlightCursorLineBlock
  /\ m_imageMgr' = s.m_imageMgr
  /\ layout' = s.layout
  /\ cursorWidth' = s.cursorWidth
  /\ viewportMarginLeft' = s.viewportMarginLeft
  /\ lineNumberAreaVisible' = s.lineNumberAreaVisible
  /\ calls' = s.calls

Called(s, fn) == [s EXCEPT !.calls = Append(@, fn)]

(***************************************************************************)
(* VImageResourceManager2: the image cache.                                *)
(***************************************************************************)
EmptyCache == [n \in {} |-> [id |-> 1, width |-> 1, height |-> 1]]

ImageMgr_addImage(s, name, img) ==
  [Called(s, "imageMgr.addImage") EXCEPT
     !.m_imageMgr = [n \in DOMAIN @ \cup {name} |-> IF n = name THEN img ELSE @[n]]]

ImageMgr_removeImage(s, name) ==
  [Called(s, "imageMgr.removeImage") EXCEPT
     !.m_imageMgr = [n \in DOMAIN @ \ {name} |-> @[n]]]

ImageMgr_clear(s) ==
  [Called(s, "imageMgr.clear") EXCEPT !.m_imageMgr = EmptyCache]

ImageMgr_contains(s, name) == name \in DOMAIN s.m_imageMgr

\* A pointer to the pixmap, or null: a sequence of at most one pixmap.
ImageMgr_findImage(s, name) ==
  IF name \in DOMAIN s.m_imageMgr THEN << s.m_imageMgr[name] >> ELSE << >>

\* QPixmap::size() and the invalid QSize().
QPixmap_size(img) == [width |-> img.width, height |-> img.height]

QSize_invalid == [width |-> -1, height |-> -1]

(***************************************************************************)
(* VTextDocumentLayout: the setters VTextEdit calls.                       *)
(***************************************************************************)
Layout_setBlockImageEnabled(s, p_enabled) ==
  [Called(s, IF p_enabled THEN "layout.setBlockImageEnabled(true)"
                          ELSE "layout.setBlockImageEnabled(false)") EXCEPT
     !.layout.blockImageEnabled = p_enabled]

Layout_relayout(s) == Called(s, "layout.relayout")

Layout_setCursorBlockMode(s, p_mode) ==
  [Called(s, "layout.setCursorBlockMode") EXCEPT !.layout.cursorBlockMode = p_mode]

Layout_clearLastCursorBlockWidth(s) ==
  [Called(s, "layout.clearLastCursorBlockWidth") EXCEPT
     !.layout.lastCursorBlockWidth = -1]

Layout_setHighlightCursorLineBlockEnabled(s, p_enabled) ==
  [Called(s, "layout.setHighlightCursorLineBlockEnabled") EXCEPT
     !.layout.highlightCursorLineBlock = p_enabled]

Layout_setCursorLineBlockNumber(s, p_blockNumber) ==
  [Called(s, "layout.setCursorLineBlockNumber") EXCEPT
     !.layout.cursorLineBlockNumber = p_blockNumber]

\* QTextEdit::setCursorWidth
setCursorWidth(s, p_width) == [s EXCEPT !.cursorWidth = p_width]

(***************************************************************************)
(* VTextEdit: the image interface.                                         *)
(***************************************************************************)
clearBlockImages_RelayoutFirst(s) == ImageMgr_clear(Layout_relayout(s))

clearBlockImages(s) == Layout_relayout(ImageMgr_clear(s))

containsImage(s, p_imageName) == ImageMgr_contains(s, p_imageName)

imageSize(s, p_imageName) ==
  LET img == ImageMgr_findImage(s, p_imageName)
  IN IF img # << >> THEN QPixmap_size(img[1]) ELSE QSize_invalid

addImage_GuardInverted(s, p_imageName, p_image) ==
  IF ~s.m_blockImageEnabled
  THEN ImageMgr_addImage(s, p_imageName, p_image)
  ELSE s

addImage_Unguarded(s, p_imageName, p_image) ==
  ImageMgr_addImage(s, p_imageName, p_image)

addImage(s, p_imageName, p_image) ==
  IF s.m_blockImageEnabled
  THEN ImageMgr_addImage(s, p_imageName, p_image)
  ELSE s

removeImage_Guarded(s, p_imageName) ==
  IF ~s.m_blockImageEnabled
  THEN ImageMgr_removeImage(s, p_imageName)
  ELSE s

removeImage(s, p_imageName) == ImageMgr_removeImage(s, p_imageName)

setBlockImageEnabled_NoClear(s, p_enabled) ==
  IF s.m_blockImageEnabled = p_enabled
  THEN s
  ELSE Layout_setBlockImageEnabled([s EXCEPT !.m_blockImageEnabled = p_enabled],
                                   p_enabled)

setBlockImageEnabled(s, p_enabled) ==
  IF s.m_blockImageEnabled = p_enabled
  THEN s
  ELSE LET s1 == [s EXCEPT !.m_blockImageEnabled = p_enabled]
           s2 == Layout_setBlockImageEnabled(s1, s1.m_blockImageEnabled)
       IN IF ~s2.m_blockImageEnabled THEN clearBlockImages(s2) ELSE s2

(***************************************************************************)
(* VTextEdit: the caret.                                                   *)
(***************************************************************************)
setCursorBlockMode_Unguarded(s, p_mode) ==
  LET s1 == [s EXCEPT !.m_cursorBlockMode = p_mode]
      s2 == Layout_setCursorBlockMode(s1, s1.m_cursorBlockMode)
      s3 == Layout_clearLastCursorBlockWidth(s2)
  IN setCursorWidth(s3, IF s3.m_cursorBlockMode # "None"
                        THEN VIRTUAL_CURSOR_BLOCK_WIDTH
                        ELSE 1)

setCursorBlockMode(s, p_mode) ==
  IF p_mode # s.m_cursorBlockMode
  THEN LET s1 == [s EXCEPT !.m_cursorBlockMode = p_mode]
           s2 == Layout_setCursorBlockMode(s1, s1.m_cursorBlockMode)
           s3 == Layout_clearLastCursorBlockWidth(s2)
       IN setCursorWidth(s3, IF s3.m_cursorBlockMode # "None"
                             THEN VIRTUAL_CURSOR_BLOCK_WIDTH
                             ELSE 1)
  ELSE s

onCursorBlockWidthUpdated_AtFloor(s, p_width) ==
  IF p_width # s.cursorWidth /\ p_width >= VIRTUAL_CURSOR_BLOCK_WIDTH
  THEN setCursorWidth(s, p_width)
  ELSE s

\* The lambda connected to VTextDocumentLayout::cursorBlockWidthUpdated.
onCursorBlockWidthUpdated(s, p_width) ==
  IF p_width # s.cursorWidth /\ p_width > VIRTUAL_CURSOR_BLOCK_WIDTH
  THEN setCursorWidth(s, p_width)
  ELSE s

(***************************************************************************)
(* VTextEdit: the highlight of the caret's line.                           *)
(***************************************************************************)
setHighlightCursorLineBlockEnabled_NoSync(s, p_enabled) ==
  IF s.m_highlightCursorLineBlock # p_enabled
  THEN Layout_setHighlightCursorLineBlockEnabled(
         [s EXCEPT !.m_highlightCursorLineBlock = p_enabled], p_enabled)
  ELSE s

setHighlightCursorLineBlockEnabled(s, p_enabled) ==
  IF s.m_highlightCursorLineBlock # p_enabled
  THEN LET s1 == [s EXCEPT !.m_highlightCursorLineBlock = p_enabled]
           s2 == Layout_setHighlightCursorLineBlockEnabled(s1, p_enabled)
       IN IF s2.m_highlightCursorLineBlock
          THEN Layout_setCursorLineBlockNumber(s2, s2.curBlockNumber)
          ELSE s2
  ELSE s

\* Lines 86-89 of the lambda connected to QTextEdit::cursorPositionChanged;
\* onCursorPositionChanged below is the whole lambda.
trackCursorLineBlock(s) ==
  IF s.m_highlightCursorLineBlock
  THEN Layout_setCursorLineBlockNumber(s, s.curBlockNumber)
  ELSE s

(***************************************************************************)
(* The document and its geometry, as paintLineNumberArea reads them.       *)
(* A block handle is its block number; -1 is the invalid handle that       *)
(* previous() of the first block and next() of the last block return.      *)
(* Offsets and heights are qreal: they are kept in half pixels.            *)
(***************************************************************************)
blockCount == Len(doc)

isValid(b) == b >= 0 /\ b < blockCount

next(b) == IF isValid(b) /\ b + 1 < blockCount THEN b + 1 ELSE -1

previous(b) == IF isValid(b) /\ b > 0 THEN b - 1 ELSE -1

userState(b) == doc[b + 1].userState

isVisible(b) == doc[b + 1].visible

findBlockByNumber(n) == IF n >= 0 /\ n < blockCount THEN n ELSE -1

\* The (int) cast of a non-negative qreal kept in half pixels.
ToInt(q) == q \div 2

\* QString::number(int)
QString_number(n) == ToString(n)

RECURSIVE BlockTop(_)
BlockTop(b) == IF b <= 0 THEN 0 ELSE BlockTop(b - 1) + doc[b].height

\* VTextDocumentLayout::blockBoundingRect; the null rectangle for an invalid block.
Layout_blockBoundingRect(b) ==
  IF isValid(b)
  THEN [y |-> BlockTop(b), height |-> doc[b + 1].height]
  ELSE [y |-> 0, height |-> 0]

\* VTextDocumentLayout::findBlockByPosition: the block covering the offset y
\* (in whole pixels), -1 if none does.
Layout_findBlockByPosition(y) ==
  LET covering == { b \in 0..(blockCount - 1) :
                      /\ BlockTop(b) <= 2 * y
                      /\ 2 * y < BlockTop(b) + doc[b + 1].height }
  IN IF covering = {} THEN -1 ELSE CHOOSE b \in covering : TRUE

\* VTextDocumentLayout::getLineLeading, in half pixels: setLineLeading(1.5).
Layout_getLineLeading == 3

contentOffsetY == -sbValue

firstVisibleBlock ==
  findBlockByNumber(Layout_findBlockByPosition(-contentOffsetY))

(***************************************************************************)
(* VLineNumberArea and the viewport margin.                                *)
(***************************************************************************)
\* fontMetrics().width(QLatin1Char('8'))
DigitWidth == 7

RECURSIVE NumDigits(_)
NumDigits(n) == IF n < 10 THEN 1 ELSE 1 + NumDigits(n \div 10)

\* VLineNumberArea::calculateWidth: room for the digits of the last line number.
LineNumberArea_calculateWidth(s) == DigitWidth * NumDigits(s.blockCount)

LineNumberArea_hide(s) ==
  [Called(s, "lineNumberArea.hide") EXCEPT !.lineNumberAreaVisible = FALSE]

LineNumberArea_show(s) ==
  [Called(s, "lineNumberArea.show") EXCEPT !.lineNumberAreaVisible = TRUE]

LineNumberArea_update(s) == Called(s, "lineNumberArea.update")

updateLineNumberAreaMargin(s) ==
  LET width == IF s.m_lineNumberType # "None"
               THEN LineNumberArea_calculateWidth(s)
               ELSE 0
  IN IF width # s.viewportMarginLeft
     THEN [Called(s, "setViewportMargins") EXCEPT !.viewportMarginLeft = width]
     ELSE s

updateLineNumberArea_NoMargin(s) ==
  IF s.m_lineNumberType # "None"
  THEN LineNumberArea_update(IF ~s.lineNumberAreaVisible
                             THEN LineNumberArea_show(s)
                             ELSE s)
  ELSE IF s.lineNumberAreaVisible
       THEN LineNumberArea_hide(updateLineNumberAreaMargin(s))
       ELSE s

updateLineNumberArea(s) ==
  IF s.m_lineNumberType # "None"
  THEN LineNumberArea_update(IF ~s.lineNumberAreaVisible
                             THEN LineNumberArea_show(updateLineNumberAreaMargin(s))
                             ELSE s)
  ELSE IF s.lineNumberAreaVisible
       THEN LineNumberArea_hide(updateLineNumberAreaMargin(s))
       ELSE s

\* The lambda connected to QTextEdit::cursorPositionChanged (lines 84-92).
onCursorPositionChanged(s) == updateLineNumberArea(trackCursorLineBlock(s))

\* VTextEdit::setLineNumberType (vtextedit.h): the mode is stored and the
\* gutter brought up to date.
setLineNumberType(s, p_type) ==
  IF p_type = s.m_lineNumberType
  THEN s
  ELSE updateLineNumberArea([s EXCEPT !.m_lineNumberType = p_type])

(***************************************************************************)
(* VTextEdit::paintLineNumberArea, one step per loop iteration.            *)
(***************************************************************************)
\* Lines 137-146 and 150: the locals before the first iteration.
paintLocals(b) ==
  LET rect == Layout_blockBoundingRect(b)
      top0 == contentOffsetY + ToInt(rect.y)
  IN [ block       |-> b,
       blockNumber |-> b,
       top         |-> top0,
       bottom      |-> top0 + ToInt(rect.height),
       number      |-> 0,
       startBlock  |-> -1,
       bold        |-> FALSE ]

\* The loop condition of both forward loops.
loopCondition(l) == isValid(l.block) /\ l.top <= eventBtm

\* Lines 197-199 and 246-249: block = block.next(), top, bottom, ++blockNumber.
advance(l) ==
  LET nb == next(l.block)
  IN [l EXCEPT !.block = nb,
               !.top = l.bottom,
               !.bottom = l.bottom + ToInt(Layout_blockBoundingRect(nb).height),
               !.blockNumber = @ + 1]

\* painter.drawText(0, top + leading, width, digitHeight, AlignRight, numberStr)
drawText(l, n) ==
  [ block |-> l.block,
    y     |-> l.top + ToInt(Layout_getLineLeading),
    text  |-> QString_number(n),
    bold  |-> l.bold ]

\* What the forward loop saw at a block: its place, and the counter on entry
\* to the iteration and after the switch.
Visit(l, entry) ==
  [ block |-> l.block, top |-> l.top, bottom |-> l.bottom,
    entry |-> entry, number |-> l.number ]

\* Lines 210-222: the number of a line and whether it is the caret's line.
lineNumber_ZeroBased(type, blockNumber, cur) ==
  [ number |-> blockNumber, currentLine |-> blockNumber = cur ]

lineNumber_ZeroAtCaret(type, blockNumber, cur) ==
  IF type = "Relative"
  THEN [ number |-> IF blockNumber < cur THEN cur - blockNumber ELSE blockNumber - cur,
         currentLine |-> blockNumber = cur ]
  ELSE [ number |-> blockNumber + 1, currentLine |-> blockNumber = cur ]

lineNumber(type, blockNumber, cur) ==
  IF type = "Relative"
  THEN LET number == blockNumber - cur
       IN IF number = 0
          THEN [ number |-> blockNumber + 1, currentLine |-> TRUE ]
          ELSE IF number < 0
               THEN [ number |-> -number, currentLine |-> FALSE ]
               ELSE [ number |-> number, currentLine |-> FALSE ]
  ELSE IF blockNumber = cur
       THEN [ number |-> blockNumber + 1, currentLine |-> TRUE ]
       ELSE [ number |-> blockNumber + 1, currentLine |-> FALSE ]

\* Lines 209-244: what one iteration of the Absolute/Relative loop draws, and
\* the painter's font after it.
numberBody(l) ==
  IF isVisible(l.block) /\ l.bottom >= eventTop
  THEN LET ln    == lineNumber(m_lineNumberType, l.blockNumber, curBlockNumber)
           lBold == IF ln.currentLine THEN [l EXCEPT !.bold = TRUE] ELSE l
       IN [ draw   |-> << drawText(lBold, ln.number) >>,
            locals |-> IF ln.currentLine THEN [lBold EXCEPT !.bold = FALSE] ELSE lBold ]
  ELSE [ draw |-> << >>, locals |-> l ]

\* Lines 168-170: the number of `block` counted from the CodeBlockStart found.
scanNumber_OffByOne(b, start) == b - start + 1

scanNumber(b, start) == b - start

\* Lines 183-195: what one iteration of the CodeBlock loop draws, and the
\* counter after it.
codeBody(l) ==
  IF userState(l.block) = CodeBlock
  THEN [ draw   |-> IF isVisible(l.block) /\ l.bottom >= eventTop
                    THEN << drawText(l, l.number) >>
                    ELSE << >>,
         locals |-> [l EXCEPT !.number = @ + 1] ]
  ELSE [ draw |-> << >>, locals |-> l ]

\* Lines 154-157, the assertion compiled out: the counter at a CodeBlockStart.
startNumber_Keep(n) == IF n = 0 THEN 1 ELSE n

startNumber(n) == 1

(***************************************************************************)
(* The state after construction: VTextEdit::init().                        *)
(***************************************************************************)
NoCall ==
  [ op |-> "init", name |-> "", img |-> [id |-> 0, width |-> 0, height |-> 0],
    flag |-> FALSE, mode |-> "None", width |-> 0 ]

InitFields ==
  /\ m_blockImageEnabled = FALSE
  /\ m_cursorBlockMode = "None"
  /\ m_highlightCursorLineBlock = FALSE
  /\ m_imageMgr = EmptyCache
  /\ layout = [ blockImageEnabled       |-> FALSE,
                virtualCursorBlockWidth |-> VIRTUAL_CURSOR_BLOCK_WIDTH,
                cursorBlockMode         |-> "None",
                lastCursorBlockWidth    |-> -1,
                highlightCursorLineBlock |-> FALSE,
                cursorLineBlockNumber   |-> -1 ]
  /\ cursorWidth = 1   \* QTextEdit's default caret width
  /\ calls = << >>
  /\ last = NoCall

InitCtl ==
  /\ InitFields
  /\ m_lineNumberType = "None"
  /\ viewportMarginLeft = 0
  /\ lineNumberAreaVisible = FALSE

\* No paint event has been delivered.
NoLocals ==
  [ block |-> -1, blockNumber |-> 0, top |-> 0, bottom |-> 0, number |-> 0,
    startBlock |-> -1, bold |-> FALSE ]

InitPaintIdle ==
  /\ pc = "idle"
  /\ loc = NoLocals
  /\ drawn = << >>
  /\ visited = << >>

\* A new QTextEdit holds one empty block; the caret is in it.
EmptyDocument == << [userState |-> -1, visible |-> TRUE, height |-> 2] >>

Init ==
  /\ InitCtl
  /\ doc = EmptyDocument
  /\ sbValue = 0
  /\ curBlockNumber = 0
  /\ eventTop = 0
  /\ eventBtm = 0
  /\ InitPaintIdle

(***************************************************************************)
(* One action per call of the public interface and per notification.       *)
(***************************************************************************)
AddImage(p_imageName, p_image) ==
  /\ Apply(addImage(Ctl, p_imageName, p_image))
  /\ last' = [NoCall EXCEPT !.op = "addImage", !.name = p_imageName, !.img = p_image]
  /\ UNCHANGED << paintIn, paintVars >>

RemoveImage(p_imageName) ==
  /\ Apply(removeImage(Ctl, p_imageName))
  /\ last' = [NoCall EXCEPT !.op = "removeImage", !.name = p_imageName]
  /\ UNCHANGED << paintIn, paintVars >>

ClearBlockImages ==
  /\ Apply(clearBlockImages(Ctl))
  /\ last' = [NoCall EXCEPT !.op = "clearBlockImages"]
  /\ UNCHANGED << paintIn, paintVars >>

SetBlockImageEnabled(p_enabled) ==
  /\ Apply(setBlockImageEnabled(Ctl, p_enabled))
  /\ last' = [NoCall EXCEPT !.op = "setBlockImageEnabled", !.flag = p_enabled]
  /\ UNCHANGED << paintIn, paintVars >>

SetCursorBlockMode(p_mode) ==
  /\ Apply(setCursorBlockMode(Ctl, p_mode))
  /\ last' = [NoCall EXCEPT !.op = "setCursorBlockMode", !.mode = p_mode]
  /\ UNCHANGED << paintIn, paintVars >>

CursorBlockWidthUpdated(p_width) ==
  /\ Apply(onCursorBlockWidthUpdated(Ctl, p_width))
  /\ last' = [NoCall EXCEPT !.op = "cursorBlockWidthUpdated", !.width = p_width]
  /\ UNCHANGED << paintIn, paintVars >>

Next ==
  \/ \E n \in Names, p \in Pixmaps : AddImage(n, p)
  \/ \E n \in Names : RemoveImage(n)
  \/ ClearBlockImages
  \/ \E b \in BOOLEAN : SetBlockImageEnabled(b)
  \/ \E m \in CursorBlockModes : SetCursorBlockMode(m)
  \/ \E w \in Widths : CursorBlockWidthUpdated(w)

Spec == Init /\ [][Next]_vars

(***************************************************************************)
(* A paint event of the gutter: VTextEdit::paintLineNumberArea.            *)
(***************************************************************************)
\* Lines 118-150: the None mode, the first visible block, the locals.
PaintBegin(p_top, p_bottom) ==
  /\ pc = "idle"
  /\ last' = [NoCall EXCEPT !.op = "paintLineNumberArea"]
  /\ eventTop' = p_top
  /\ eventBtm' = p_bottom
  /\ UNCHANGED << doc, sbValue, curBlockNumber, drawn, visited >>
  /\ IF m_lineNumberType = "None"
     THEN /\ Apply(LineNumberArea_hide(updateLineNumberAreaMargin(Ctl)))
          /\ pc' = "done"
          /\ loc' = loc
     ELSE /\ Apply(Ctl)
          /\ IF ~isValid(firstVisibleBlock)
             THEN pc' = "done" /\ loc' = loc
             ELSE /\ loc' = paintLocals(firstVisibleBlock)
                  /\ pc' = IF m_lineNumberType = "CodeBlock" THEN "code" ELSE "number"

\* The rest of an iteration of the CodeBlock loop, after the switch: lines 183-199.
CodeTail(l) ==
  LET r == codeBody(l)
  IN /\ loc' = advance(r.locals)
     /\ drawn' = drawn \o r.draw
     /\ visited' = Append(visited, Visit(l, loc.number))
     /\ pc' = "code"
     /\ UNCHANGED << ctlVars, paintIn >>

\* Lines 154-157; a release build compiles Q_ASSERT out.
CodeBlockStartCase ==
  /\ pc = "code"
  /\ loopCondition(loc)
  /\ userState(loc.block) = CodeBlockStart
  /\ CodeTail([loc EXCEPT !.number = startNumber(@)])

\* Line 155 in a debug build: Q_ASSERT(number == 0) aborts.
CodeBlockStartAssert ==
  /\ pc = "code"
  /\ loopCondition(loc)
  /\ userState(loc.block) = CodeBlockStart
  /\ loc.number # 0
  /\ pc' = "aborted"
  /\ UNCHANGED << ctlVars, paintIn, loc, drawn, visited >>

CodeBlockEndCase_NoReset ==
  /\ pc = "code"
  /\ loopCondition(loc)
  /\ userState(loc.block) = CodeBlockEnd
  /\ CodeTail(loc)

\* Lines 159-161.
CodeBlockEndCase ==
  /\ pc = "code"
  /\ loopCondition(loc)
  /\ userState(loc.block) = CodeBlockEnd
  /\ CodeTail([loc EXCEPT !.number = 0])

\* Lines 163-164 with number != 0: no scan.
CodeBlockCase ==
  /\ pc = "code"
  /\ loopCondition(loc)
  /\ userState(loc.block) = CodeBlock
  /\ loc.number # 0
  /\ CodeTail(loc)

\* Lines 164-166: number == 0, the backward scan starts at block.previous().
ScanBegin ==
  /\ pc = "code"
  /\ loopCondition(loc)
  /\ userState(loc.block) = CodeBlock
  /\ loc.number = 0
  /\ loc' = [loc EXCEPT !.startBlock = previous(loc.block)]
  /\ pc' = "scan"
  /\ UNCHANGED << ctlVars, paintIn, drawn, visited >>

ScanStep_NoStepBack ==
  /\ pc = "scan"
  /\ isValid(loc.startBlock)
  /\ userState(loc.startBlock) # CodeBlockStart
  /\ pc' = "scan"
  /\ UNCHANGED << ctlVars, paintIn, loc, drawn, visited >>

\* Lines 167-173: one step back.
ScanStep ==
  /\ pc = "scan"
  /\ isValid(loc.startBlock)
  /\ userState(loc.startBlock) # CodeBlockStart
  /\ loc' = [loc EXCEPT !.startBlock = previous(loc.startBlock)]
  /\ pc' = "scan"
  /\ UNCHANGED << ctlVars, paintIn, drawn, visited >>

\* Lines 168-171: the CodeBlockStart is found; the iteration goes on.
ScanFound ==
  /\ pc = "scan"
  /\ isValid(loc.startBlock)
  /\ userState(loc.startBlock) = CodeBlockStart
  /\ CodeTail([loc EXCEPT !.number = scanNumber(loc.block, loc.startBlock)])

\* Line 167: the scan has run off the first block; the iteration goes on.
ScanNotFound ==
  /\ pc = "scan"
  /\ ~isValid(loc.startBlock)
  /\ CodeTail(loc)

\* Lines 179-180.
DefaultCase ==
  /\ pc = "code"
  /\ loopCondition(loc)
  /\ userState(loc.block) \notin {CodeBlockStart, CodeBlockEnd, CodeBlock}
  /\ CodeTail(loc)

\* Lines 151 and 202: the loop condition fails.
CodeLoopExit ==
  /\ pc = "code"
  /\ ~loopCondition(loc)
  /\ pc' = "done"
  /\ UNCHANGED << ctlVars, paintIn, loc, drawn, visited >>

\* Lines 208-250: one iteration of the Absolute/Relative loop.
NumberIterate ==
  /\ pc = "number"
  /\ loopCondition(loc)
  /\ LET r == numberBody(loc)
     IN /\ loc' = advance(r.locals)
        /\ drawn' = drawn \o r.draw
        /\ visited' = Append(visited, Visit(loc, loc.number))
  /\ pc' = "number"
  /\ UNCHANGED << ctlVars, paintIn >>

\* Lines 208 and 251: the loop condition fails.
NumberLoopExit ==
  /\ pc = "number"
  /\ ~loopCondition(loc)
  /\ pc' = "done"
  /\ UNCHANGED << ctlVars, paintIn, loc, drawn, visited >>

(***************************************************************************)
(* The host's side: the document is edited, scrolled and the caret moved   *)
(* before the paint event arrives. blockCountChanged is connected to       *)
(* updateLineNumberAreaMargin, textChanged to updateLineNumberArea (lines  *)
(* 78-81).                                                                 *)
(***************************************************************************)
LoadDocument(d, p_value, p_caret) ==
  /\ doc' = d
  /\ sbValue' = p_value
  /\ curBlockNumber' = p_caret
  /\ Apply(updateLineNumberArea(
             updateLineNumberAreaMargin([Ctl EXCEPT !.blockCount = Len(d)])))
  /\ last' = [NoCall EXCEPT !.op = "textChanged"]
  /\ UNCHANGED << eventTop, eventBtm, paintVars >>

RECURSIVE DocumentHeight(_)
DocumentHeight(d) ==
  IF d = << >> THEN 0 ELSE d[1].height + DocumentHeight(Tail(d))

\* The scroll values of a document: from its top to its full height.
ScrollValues(d) == 0..ToInt(DocumentHeight(d))

\* The rectangle of a paint event: rows p_top..p_bottom of the gutter.
EventRows == 0..MaxY

\* The gutter is in use in the mode `type`; the document is still empty.
InitPainting(type) ==
  /\ InitFields
  /\ m_lineNumberType = type
  /\ viewportMarginLeft = 0
  /\ lineNumberAreaVisible = FALSE
  /\ doc = EmptyDocument
  /\ sbValue = 0
  /\ curBlockNumber = 0
  /\ eventTop = 0
  /\ eventBtm = 0
  /\ InitPaintIdle

(***************************************************************************)
(* Painting in the Absolute and Relative modes, for every document of at   *)
(* most MaxLines blocks, every scroll value, caret and event rectangle.    *)
(* The user states are not read in these modes.                            *)
(***************************************************************************)
Heights == {2, 3}

LineDocument(v, h) ==
  [i \in DOMAIN v |-> [userState |-> Normal, visible |-> v[i], height |-> h[i]]]

InitLineNumber == \E type \in {"Absolute", "Relative"} : InitPainting(type)

LoadLineDocument ==
  /\ pc = "idle"
  /\ doc = EmptyDocument
  /\ \E n \in 1..MaxLines :
       \E v \in [1..n -> BOOLEAN], h \in [1..n -> Heights] :
         \E p_value \in ScrollValues(LineDocument(v, h)), p_caret \in 0..(n - 1) :
           LoadDocument(LineDocument(v, h), p_value, p_caret)

NextLineNumber ==
  \/ LoadLineDocument
  \/ \E t \in EventRows : \E b \in t..MaxY : PaintBegin(t, b)
  \/ NumberIterate
  \/ NumberLoopExit

SpecLineNumber == InitLineNumber /\ [][NextLineNumber]_vars

(***************************************************************************)
(* Painting in the CodeBlock mode, for every tagging of a document of at   *)
(* most MaxBlocks blocks. Every block is one pixel high; at most one block *)
(* is hidden, a CodeBlock one (the visibility of the others is not read);  *)
(* the caret is not read.                                                  *)
(***************************************************************************)
CodeDocument(t, hid) ==
  [i \in DOMAIN t |-> [userState |-> t[i], visible |-> i # hid, height |-> 2]]

InitCodeBlock == InitPainting("CodeBlock")

LoadCodeDocument ==
  /\ pc = "idle"
  /\ doc = EmptyDocument
  /\ \E n \in 1..MaxBlocks :
       \E t \in [1..n -> BlockStates] :
         \E hid \in {0} \cup {i \in 1..n : t[i] = CodeBlock} :
           \E p_value \in ScrollValues(CodeDocument(t, hid)) :
             LoadDocument(CodeDocument(t, hid), p_value, 0)

NextCodeBlock ==
  \/ LoadCodeDocument
  \/ \E t \in EventRows : \E b \in t..MaxY : PaintBegin(t, b)
  \/ CodeBlockStartCase
  \/ CodeBlockStartAssert
  \/ CodeBlockEndCase
  \/ CodeBlockCase
  \/ ScanBegin
  \/ ScanStep
  \/ ScanFound
  \/ ScanNotFound
  \/ DefaultCase
  \/ CodeLoopExit

SpecCodeBlock == InitCodeBlock /\ [][NextCodeBlock]_vars

(***************************************************************************)
(* Painting in any of the three numbering modes. paintLineNumberArea runs  *)
(* on the UI thread and neither blocks nor yields: once it is entered, its *)
(* next step is always taken.                                              *)
(***************************************************************************)
InitPaint == \E type \in {"Absolute", "Relative", "CodeBlock"} : InitPainting(type)

NextPaint ==
  \/ m_lineNumberType # "CodeBlock" /\ NextLineNumber
  \/ m_lineNumberType = "CodeBlock" /\ NextCodeBlock

PaintStep ==
  \/ NumberIterate
  \/ NumberLoopExit
  \/ CodeBlockStartCase
  \/ CodeBlockStartAssert
  \/ CodeBlockEndCase
  \/ CodeBlockCase
  \/ ScanBegin
  \/ ScanStep
  \/ ScanFound
  \/ ScanNotFound
  \/ DefaultCase
  \/ CodeLoopExit

SpecPaint == InitPaint /\ [][NextPaint]_vars

SpecPaintFair == SpecPaint /\ WF_vars(PaintStep)

(***************************************************************************)
(* The controller's notifications: the mode is set, the document edited,   *)
(* the view scrolled, the caret moved and the gutter painted, in any       *)
(* order. A handler runs to its end before the next event is delivered.    *)
(***************************************************************************)
Min(a, b) == IF a <= b THEN a ELSE b

\* A document of n blocks like the one a new QTextEdit holds.
UniformDocument(n) == [i \in 1..n |-> EmptyDocument[1]]

SetLineNumberType(p_type) ==
  /\ pc = "idle"
  /\ Apply(setLineNumberType(Ctl, p_type))
  /\ last' = [NoCall EXCEPT !.op = "setLineNumberType", !.mode = p_type]
  /\ UNCHANGED << paintIn, paintVars >>

\* Blocks are appended or removed below the caret: blockCountChanged (if the
\* count changes) runs updateLineNumberAreaMargin, textChanged runs
\* updateLineNumberArea (lines 78-81); the scroll bar keeps its value within
\* the document, and valueChanged runs updateLineNumberArea again (lines 82-83).
EditDocument(n) ==
  /\ pc = "idle"
  /\ n > curBlockNumber
  /\ LET d  == UniformDocument(n)
         s0 == [Ctl EXCEPT !.blockCount = n]
         s1 == IF n # Len(doc) THEN updateLineNumberAreaMargin(s0) ELSE s0
         s2 == updateLineNumberArea(s1)
         v  == Min(sbValue, ToInt(DocumentHeight(d)))
     IN /\ doc' = d
        /\ sbValue' = v
        /\ Apply(IF v # sbValue THEN updateLineNumberArea(s2) ELSE s2)
  /\ last' = [NoCall EXCEPT !.op = "textChanged"]
  /\ UNCHANGED << curBlockNumber, eventTop, eventBtm, paintVars >>

\* QScrollBar::valueChanged (lines 82-83).
Scroll(p_value) ==
  /\ pc = "idle"
  /\ p_value \in ScrollValues(doc)
  /\ p_value # sbValue
  /\ sbValue' = p_value
  /\ Apply(updateLineNumberArea(Ctl))
  /\ last' = [NoCall EXCEPT !.op = "valueChanged"]
  /\ UNCHANGED << doc, curBlockNumber, eventTop, eventBtm, paintVars >>

\* QTextEdit::cursorPositionChanged (lines 84-92): the caret has moved to a
\* position in block p_block, which may be the block it was in.
CursorPositionChanged(p_block) ==
  /\ pc = "idle"
  /\ p_block \in 0..(Len(doc) - 1)
  /\ curBlockNumber' = p_block
  /\ Apply(onCursorPositionChanged([Ctl EXCEPT !.curBlockNumber = p_block]))
  /\ last' = [NoCall EXCEPT !.op = "cursorPositionChanged"]
  /\ UNCHANGED << doc, sbValue, eventTop, eventBtm, paintVars >>

SetHighlightCursorLineBlockEnabled(p_enabled) ==
  /\ pc = "idle"
  /\ Apply(setHighlightCursorLineBlockEnabled(Ctl, p_enabled))
  /\ last' = [NoCall EXCEPT !.op = "setHighlightCursorLineBlockEnabled",
                            !.flag = p_enabled]
  /\ UNCHANGED << paintIn, paintVars >>

\* paintLineNumberArea returns; its locals are gone.
PaintReturn ==
  /\ pc = "done"
  /\ pc' = "idle"
  /\ loc' = NoLocals
  /\ drawn' = << >>
  /\ visited' = << >>
  /\ UNCHANGED << ctlVars, paintIn >>

NextGutter ==
  \/ \E type \in LineNumberTypes : SetLineNumberType(type)
  \/ \E n \in 1..MaxGutterBlocks : EditDocument(n)
  \/ \E v \in 0..MaxY : Scroll(v)
  \/ \E b \in 0..(MaxLines - 1) : CursorPositionChanged(b)
  \/ \E t \in EventRows : \E b \in t..MaxY : PaintBegin(t, b)
  \/ NumberIterate
  \/ NumberLoopExit
  \/ DefaultCase
  \/ CodeLoopExit
  \/ PaintReturn

SpecGutter == Init /\ [][NextGutter]_vars

\* The highlight of the caret's line: it is switched on and off while the
\* caret moves, the document grows and shrinks and the mode changes.
NextHighlight ==
  \/ \E b \in BOOLEAN : SetHighlightCursorLineBlockEnabled(b)
  \/ \E b \in 0..(MaxLines - 1) : CursorPositionChanged(b)
  \/ \E n \in 1..MaxLines : EditDocument(n)
  \/ \E type \in LineNumberTypes : SetLineNumberType(type)

SpecHighlight == Init /\ [][NextHighlight]_vars

\* VTextDocumentLayout emits cursorBlockWidthUpdated only while its
\* cursor-block mode is not None.
CursorBlockWidthNotified(p_width) ==
  /\ layout.cursorBlockMode # "None"
  /\ CursorBlockWidthUpdated(p_width)

\* The caret: its mode is set and its width notified while the caret moves.
NextCaret ==
  \/ \E m \in CursorBlockModes : SetCursorBlockMode(m)
  \/ \E w \in Widths : CursorBlockWidthNotified(w)
  \/ NextHighlight

SpecCaret == Init /\ [][NextCaret]_vars

(***************************************************************************)
(* The gutter: properties of what a paint event draws.                     *)
(***************************************************************************)
DrawnBlocks == { drawn[i].block : i \in DOMAIN drawn }

\* Block b is a CodeBlock line of the region that starts at s: s is tagged
\* CodeBlockStart and every block after s up to b is tagged CodeBlock.
InRegionOf(s, b) ==
  /\ 0 <= s /\ s < b /\ b < blockCount
  /\ doc[s + 1].userState = CodeBlockStart
  /\ \A j \in (s + 1)..b : doc[j + 1].userState = CodeBlock

\* C1: in the Absolute mode every number drawn for a block is its block
\* number + 1, and it is drawn bold exactly for the caret's block.
C1_AbsoluteNumbers ==
  m_lineNumberType = "Absolute" =>
    \A i \in DOMAIN drawn :
      /\ drawn[i].text = QString_number(drawn[i].block + 1)
      /\ drawn[i].bold <=> (drawn[i].block = curBlockNumber)

\* C1 witness: a scrolled paint has drawn the caret's line and a later line.
C1_Witness ==
  /\ m_lineNumberType = "Absolute"
  /\ pc = "done"
  /\ sbValue > 0
  /\ Len(drawn) >= 2
  /\ drawn[1].block = curBlockNumber
  /\ drawn[1].block > 0
  /\ drawn[1].bold
  /\ ~drawn[2].bold

\* C2: in the Relative mode the caret's block is drawn with its block number
\* + 1, bold; every other block with its distance from the caret's block, not
\* bold; "0" is never drawn.
C2_RelativeNumbers ==
  m_lineNumberType = "Relative" =>
    \A i \in DOMAIN drawn :
      LET b == drawn[i].block
      IN /\ b = curBlockNumber =>
              drawn[i].text = QString_number(b + 1) /\ drawn[i].bold
         /\ b < curBlockNumber =>
              drawn[i].text = QString_number(curBlockNumber - b) /\ ~drawn[i].bold
         /\ b > curBlockNumber =>
              drawn[i].text = QString_number(b - curBlockNumber) /\ ~drawn[i].bold
         /\ drawn[i].text # "0"

\* C2 witness: a line above the caret, the caret's line and a line below it
\* have been drawn.
C2_Witness ==
  /\ m_lineNumberType = "Relative"
  /\ pc = "done"
  /\ Len(drawn) = 3
  /\ drawn[2].block = curBlockNumber
  /\ drawn[2].text = "2"
  /\ drawn[1].text = "1"
  /\ drawn[3].text = "1"

C4_ScrolledIntoRegion ==
  m_lineNumberType = "CodeBlock" =>
    \A i \in DOMAIN drawn :
      \A s \in 0..(blockCount - 1) :
        (InRegionOf(s, drawn[i].block) /\ s < firstVisibleBlock) =>
          drawn[i].text = QString_number(drawn[i].block - s)

\* C4 witness: the first visible block is the third CodeBlock line of a
\* region and has been drawn with 3.
C4_Witness ==
  /\ m_lineNumberType = "CodeBlock"
  /\ pc = "done"
  /\ firstVisibleBlock >= 3
  /\ InRegionOf(firstVisibleBlock - 3, firstVisibleBlock)
  /\ drawn # << >>
  /\ drawn[1].block = firstVisibleBlock
  /\ drawn[1].text = "3"

\* C5: in the CodeBlock mode, a block tagged CodeBlock that is reached with
\* the counter at 0 and has no CodeBlockStart before it gets no number.
C5_NoStartNoNumber ==
  m_lineNumberType = "CodeBlock" =>
    \A i \in DOMAIN visited :
      LET v == visited[i]
      IN ( /\ userState(v.block) = CodeBlock
           /\ v.entry = 0
           /\ \A s \in 0..(v.block - 1) : userState(s) # CodeBlockStart )
         => v.block \notin DrawnBlocks

(***************************************************************************)
(* The image interface and the caret: properties.                          *)
(***************************************************************************)

\* C6, as stated: after addImage(name, img) returns, in every state,
\* containsImage(name) is true and imageSize(name) is img's size.
C6_AddImageAlwaysStores ==
  last.op = "addImage" =>
    /\ containsImage(Ctl, last.name)
    /\ imageSize(Ctl, last.name) = QPixmap_size(last.img)

\* C6, amended: after addImage(name, img) returns with block images enabled,
\* containsImage(name) is true, imageSize(name) is img's size and the entry
\* held for name is img (an earlier entry is replaced).
C6_AddImageWhenEnabled ==
  (last.op = "addImage" /\ m_blockImageEnabled) =>
    /\ containsImage(Ctl, last.name)
    /\ imageSize(Ctl, last.name) = QPixmap_size(last.img)
    /\ ImageMgr_findImage(Ctl, last.name) = << last.img >>

\* C6 witness: addImage has stored the wider pixmap while another name is held.
C6_Witness ==
  /\ last.op = "addImage"
  /\ m_blockImageEnabled
  /\ containsImage(Ctl, last.name)
  /\ imageSize(Ctl, last.name) = [width |-> 2, height |-> 1]
  /\ \E n \in Names \ {last.name} : containsImage(Ctl, n)

\* C7: after setBlockImageEnabled(false) returns, containsImage(name) is false
\* for every name, whatever calls came before.
C7_DisableEmptiesCache ==
  (last.op = "setBlockImageEnabled" /\ ~last.flag) =>
    \A n \in Names : ~containsImage(Ctl, n)

\* C7 witness: setBlockImageEnabled(false) has run its clearing path (the
\* surface was enabled) and the cache is empty.
C7_Witness ==
  /\ last.op = "setBlockImageEnabled"
  /\ ~last.flag
  /\ "imageMgr.clear" \in {calls[i] : i \in DOMAIN calls}
  /\ \A n \in Names : ~containsImage(Ctl, n)

\* C8: every handler that clears the cache calls relayout() after the clear and
\* before it returns: clearBlockImages() calls clear() then relayout(), and
\* setBlockImageEnabled(false) on an enabled surface passes the flag to the
\* engine, then clears, then relayouts.
C8_RelayoutAfterClear ==
  [][ /\ \A i \in DOMAIN calls' :
            calls'[i] = "imageMgr.clear" =>
              \E j \in DOMAIN calls' : j > i /\ calls'[j] = "layout.relayout"
      /\ last'.op = "clearBlockImages" =>
            calls' = << "imageMgr.clear", "layout.relayout" >>
      /\ (last'.op = "setBlockImageEnabled" /\ ~last'.flag /\ m_blockImageEnabled) =>
            /\ calls' = << "layout.setBlockImageEnabled(false)",
                           "imageMgr.clear", "layout.relayout" >>
            /\ ~layout'.blockImageEnabled
    ]_vars

\* C8 witness: setBlockImageEnabled(false) has made its three calls.
C8_Witness ==
  /\ last.op = "setBlockImageEnabled"
  /\ ~last.flag
  /\ Len(calls) = 3
  /\ calls[3] = "layout.relayout"

\* C9: after removeImage(name) returns, containsImage(name) is false; the
\* entries of all other names are unchanged; when name is absent nothing
\* changes at all.
C9_RemoveImage ==
  [][ last'.op = "removeImage" =>
        /\ last'.name \notin DOMAIN m_imageMgr'
        /\ \A n \in Names \ {last'.name} :
              /\ (n \in DOMAIN m_imageMgr') = (n \in DOMAIN m_imageMgr)
              /\ n \in DOMAIN m_imageMgr => m_imageMgr'[n] = m_imageMgr[n]
        /\ last'.name \notin DOMAIN m_imageMgr => m_imageMgr' = m_imageMgr
        /\ UNCHANGED << m_blockImageEnabled, layout, cursorWidth >>
    ]_vars

\* C9 witness: removeImage has left exactly the other name in the cache.
C9_Witness ==
  /\ last.op = "removeImage"
  /\ m_blockImageEnabled
  /\ DOMAIN m_imageMgr = Names \ {last.name}

\* C10: a caret-width notification changes the applied caret width only when
\* the notified width differs from the applied width and is greater than 8,
\* and then the applied width becomes the notified width.
C10_CaretWidthFloor ==
  [][ last'.op = "cursorBlockWidthUpdated" =>
        /\ cursorWidth' # cursorWidth =>
              /\ last'.width # cursorWidth
              /\ last'.width > VIRTUAL_CURSOR_BLOCK_WIDTH
              /\ cursorWidth' = last'.width
        /\ (last'.width <= VIRTUAL_CURSOR_BLOCK_WIDTH \/ last'.width = cursorWidth) =>
              cursorWidth' = cursorWidth
    ]_vars

\* C10 witness: a notification above the floor has been applied.
C10_Witness ==
  /\ last.op = "cursorBlockWidthUpdated"
  /\ last.width > VIRTUAL_CURSOR_BLOCK_WIDTH
  /\ cursorWidth = last.width

(***************************************************************************)
(* The paint loops: the assertion, termination, the dirty range, geometry. *)
(***************************************************************************)
\* The tags from block i on are well formed: each region is one
\* CodeBlockStart, then CodeBlock blocks, then one CodeBlockEnd; CodeBlock
\* tags occur only inside a region and no region starts inside another.
RECURSIVE WellFormedFrom(_, _)
WellFormedFrom(i, inRegion) ==
  IF i > Len(doc)
  THEN ~inRegion
  ELSE LET tag == doc[i].userState
       IN IF tag = CodeBlockStart THEN ~inRegion /\ WellFormedFrom(i + 1, TRUE)
          ELSE IF tag = CodeBlock THEN inRegion /\ WellFormedFrom(i + 1, TRUE)
          ELSE IF tag = CodeBlockEnd THEN inRegion /\ WellFormedFrom(i + 1, FALSE)
          ELSE ~inRegion /\ WellFormedFrom(i + 1, FALSE)

WellFormed == WellFormedFrom(1, FALSE)

\* C14: in the CodeBlock mode, on a well-formed document, for every first
\* visible block and event rectangle, the counter is 0 each time a block
\* tagged CodeBlockStart is processed: the assertion of line 155 never fails.
C14_AssertionHolds ==
  (m_lineNumberType = "CodeBlock" /\ WellFormed) =>
    /\ pc # "aborted"
    /\ (pc = "code" /\ loopCondition(loc) /\ userState(loc.block) = CodeBlockStart)
          => loc.number = 0
    /\ \A i \in DOMAIN visited :
          userState(visited[i].block) = CodeBlockStart => visited[i].entry = 0

\* C14 witness: on a well-formed document one paint has processed the
\* CodeBlockStart of a region, which set the counter to 1, the CodeBlockEnd
\* that follows, and the CodeBlockStart of the next region with the counter
\* at 0 again.
C14_Witness ==
  /\ m_lineNumberType = "CodeBlock"
  /\ WellFormed
  /\ pc = "done"
  /\ \E i, j \in DOMAIN visited :
       /\ i < j
       /\ userState(visited[i].block) = CodeBlockStart
       /\ visited[i].number = 1
       /\ userState(visited[j].block) = CodeBlockStart
       /\ visited[j].entry = 0

\* C15: every gutter paint terminates, for any tagging, first visible block
\* and event rectangle. Each iteration of a forward loop advances to the next
\* block; the loop ends at the past-end block or at the first block whose top
\* is below the event rectangle; each step of a backward scan moves one block
\* back, and the scan ends at a CodeBlockStart or at the invalid block before
\* the first one.
C15_PaintTerminates ==
  /\ (pc \in {"number", "code", "scan"}) ~> (pc \in {"done", "aborted"})
  /\ [][ /\ Len(visited') = Len(visited) + 1 =>
              /\ visited'[Len(visited')].block = loc.block
              /\ loc'.block = next(loc.block)
              /\ isValid(loc'.block) => loc'.block = loc.block + 1
         /\ (pc \in {"number", "code"} /\ pc' = "done") =>
              /\ ~isValid(loc.block) \/ loc.top > eventBtm
              /\ \A i \in DOMAIN visited : visited[i].top <= eventBtm
         /\ (pc = "scan" /\ pc' = "scan") =>
              /\ loc'.startBlock = previous(loc.startBlock)
              /\ loc'.startBlock = loc.startBlock - 1
         /\ (pc = "scan" /\ pc' = "code") =>
              \/ ~isValid(loc.startBlock)
              \/ userState(loc.startBlock) = CodeBlockStart
       ]_vars

\* C15 witness: on a document that is not well formed, a backward scan from
\* the third block or a later one has run off the start of the document
\* without finding a CodeBlockStart, and the paint has ended at the past-end
\* block.
C15_Witness ==
  /\ m_lineNumberType = "CodeBlock"
  /\ ~WellFormed
  /\ pc = "done"
  /\ ~isValid(loc.block)
  /\ \E i \in DOMAIN visited :
       /\ visited[i].block >= 2
       /\ userState(visited[i].block) = CodeBlock
       /\ visited[i].entry = 0
       /\ visited[i].number = 0

\* The vertical span of block b in the gutter: the scroll-adjusted top of its
\* bounding rectangle and its height, each truncated as at lines 139-140.
SpanTop(b) == contentOffsetY + ToInt(Layout_blockBoundingRect(b).y)

SpanBottom(b) == SpanTop(b) + ToInt(Layout_blockBoundingRect(b).height)

Intersects(b) == SpanTop(b) <= eventBtm /\ SpanBottom(b) >= eventTop

\* C16: a paint draws a number only for blocks that are visible and whose
\* vertical span intersects the event rectangle; in the Absolute and Relative
\* modes it draws one for every such block from the first visible block on;
\* in the CodeBlock mode a hidden CodeBlock block gets no number and still
\* advances the counter.
C16_DirtyRange ==
  /\ \A i \in DOMAIN drawn :
        isVisible(drawn[i].block) /\ Intersects(drawn[i].block)
  /\ (m_lineNumberType \in {"Absolute", "Relative"} /\ pc = "done"
        /\ isValid(firstVisibleBlock)) =>
        \A b \in firstVisibleBlock..(blockCount - 1) :
          (isVisible(b) /\ Intersects(b)) => b \in DrawnBlocks
  /\ m_lineNumberType = "CodeBlock" =>
        \A i \in DOMAIN visited :
          (userState(visited[i].block) = CodeBlock /\ ~isVisible(visited[i].block)) =>
            /\ visited[i].block \notin DrawnBlocks
            /\ (i + 1) \in DOMAIN visited =>
                  visited[i + 1].entry = visited[i].number + 1

\* C17: the y coordinate at which a block's number is drawn is the
\* scroll-adjusted top of the block's bounding rectangle, truncated to an
\* integer, plus the line leading, for the first visible block and for every
\* block after it, whole or fractional block heights alike.
C17_TextAtBlockTop ==
  \A i \in DOMAIN drawn :
    drawn[i].y = SpanTop(drawn[i].block) + ToInt(Layout_getLineLeading)

(***************************************************************************)
(* The gutter's margin and the highlight of the caret's line: properties.  *)
(***************************************************************************)

\* C11: after every event handled (mode change, block-count change, text
\* change, scroll, caret move, gutter paint) the left viewport margin is the
\* gutter's calculated width when the numbering mode is not None; when it is
\* None the margin is 0 and the gutter is hidden.
C11_MarginIsGutterWidth ==
  /\ m_lineNumberType # "None" =>
        viewportMarginLeft = LineNumberArea_calculateWidth(Ctl)
  /\ m_lineNumberType = "None" =>
        viewportMarginLeft = 0 /\ ~lineNumberAreaVisible

\* C11 witness: an edit has taken a numbered document to two-digit line
\* numbers and the margin has followed.
C11_Witness ==
  /\ m_lineNumberType # "None"
  /\ last.op = "textChanged"
  /\ Len(doc) >= 10
  /\ "setViewportMargins" \in {calls[i] : i \in DOMAIN calls}
  /\ viewportMarginLeft = 2 * DigitWidth

\* C12: while the highlight of the caret's line is enabled, the engine's
\* cursor-line block number is the caret's block number after every event
\* handled, whatever the order of setHighlightCursorLineBlockEnabled calls
\* and caret moves.
C12_CursorLineFollowsCaret ==
  m_highlightCursorLineBlock =>
    /\ layout.highlightCursorLineBlock
    /\ layout.cursorLineBlockNumber = curBlockNumber

\* C12 witness: the highlight has been switched on with the caret in a block
\* it had moved to before, and the engine has got that block's number.
C12_Witness ==
  /\ last.op = "setHighlightCursorLineBlockEnabled"
  /\ last.flag
  /\ m_highlightCursorLineBlock
  /\ curBlockNumber > 0
  /\ calls = << "layout.setHighlightCursorLineBlockEnabled",
                "layout.setCursorLineBlockNumber" >>
  /\ layout.cursorLineBlockNumber = curBlockNumber

\* C13: with the highlight enabled, a caret-position change that leaves the
\* caret in its block makes no setCursorLineBlockNumber call to the engine.
C13_NoCallInSameBlock ==
  [][ ( /\ last'.op = "cursorPositionChanged"
        /\ m_highlightCursorLineBlock
        /\ curBlockNumber' = curBlockNumber )
      => \A i \in DOMAIN calls' : calls'[i] # "layout.setCursorLineBlockNumber"
    ]_vars

(***************************************************************************)
(* The image cache and the caret's width: invariants.                      *)
(***************************************************************************)

\* C18: in every state reached by addImage, removeImage, clearBlockImages and
\* setBlockImageEnabled calls, the cache is empty while block images are
\* disabled; addImage called while they are disabled leaves the cache as it
\* was and makes no call on it.
C18_DisabledMeansEmpty ==
  /\ [](~m_blockImageEnabled => DOMAIN m_imageMgr = {})
  /\ [][ (last'.op = "addImage" /\ ~m_blockImageEnabled) =>
            (m_imageMgr' = m_imageMgr /\ calls' = << >>) ]_vars

\* C18 witness: addImage has returned with block images disabled and the
\* cache empty.
C18_Witness ==
  /\ last.op = "addImage"
  /\ ~m_blockImageEnabled
  /\ calls = << >>
  /\ DOMAIN m_imageMgr = {}

\* C19: with notifications emitted only in the block-caret mode, the applied
\* caret width is 1 in the mode None and at least 8 in the block-caret mode;
\* setCursorBlockMode with the mode already in force changes nothing, so a
\* width applied by a notification is kept.
C19_CaretWidthByMode ==
  /\ [](m_cursorBlockMode = "None" => cursorWidth = 1)
  /\ [](m_cursorBlockMode # "None" => cursorWidth >= VIRTUAL_CURSOR_BLOCK_WIDTH)
  /\ [][ (last'.op = "setCursorBlockMode" /\ last'.mode = m_cursorBlockMode) =>
            /\ UNCHANGED << m_cursorBlockMode, cursorWidth, layout >>
            /\ calls' = << >> ]_vars

\* C19 witness: setCursorBlockMode has been called with the block-caret mode
\* in force and a notified width above 8 is still applied.
C19_Witness ==
  /\ last.op = "setCursorBlockMode"
  /\ last.mode = "BlockCaret"
  /\ m_cursorBlockMode = "BlockCaret"
  /\ calls = << >>
  /\ cursorWidth > VIRTUAL_CURSOR_BLOCK_WIDTH

=============================================================================
